---- MODULE Spec2Model ----
(***************************************************************************)
(* Model of the aoc_lib crate: the arena tree (src/tree.rs) with its       *)
(* explicit-stack aggregation, and the 2D map (src/map2d.rs).              *)
(***************************************************************************)
EXTENDS Integers, Sequences, FiniteSets, TLC

VARIABLES
    nodes,        \* Tree.nodes: HashMap<usize, TreeNode<T>>, a function id -> record
    node_count,   \* Tree.node_count
    last,         \* the most recent add_child call: argument, count before, ok/panic, result
    calls,        \* history: number of add_child calls made, returned or not
    returned,     \* history: <<child, parent>> for every add_child call that returned
    succ,         \* history: number of add_child calls that returned
    written,      \* history: per id, the value last written through get_mut_val
    agg_pc,       \* position inside Tree::aggregate: idle / loop / done / panic
    start_id,     \* aggregate's start_id argument
    fsel,         \* aggregate's closure f
    stack,        \* aggregate's local `stack`
    value,        \* aggregate's local `value: Option<R>`
    visits,       \* history: how often each id was popped by the running aggregate
    tiles,        \* Map2D.tiles: Vec<T>, row-major (index 0 of the Vec is element 1 here)
    width,        \* Map2D.width
    height,       \* Map2D.height
    mres,         \* the Map2D call in progress and its outcome, or the idle marker
    input_files,  \* per (year, day): the text of ./input/<year>_<day>.txt, None when absent
    input_dir,    \* whether the subfolder ./input exists
    gres,         \* the get_input call in progress and its outcome, or the idle marker
    fs_input,     \* the String handed to Map2D::from_string, as a sequence of chars
    fs_res        \* outcome of the from_string call: idle, ok or panic

vars == <<nodes, node_count, last, calls, returned, succ, written,
          agg_pc, start_id, fsel, stack, value, visits,
          tiles, width, height, mres,
          input_files, input_dir, gres,
          fs_input, fs_res>>

treeVars == <<nodes, node_count, last, calls, returned, succ, written>>
aggVars == <<agg_pc, start_id, fsel, stack, value, visits>>
mapVars == <<tiles, width, height, mres>>
inputVars == <<input_files, input_dir, gres>>
fsVars == <<fs_input, fs_res>>

\* ---------------------------------------------------------------- bounds
MaxNodes == 4
MaxPops == MaxNodes + 2
MaxDim == 2
MaxStr == 5

Vals == {1, 2}
Ids == 0 .. (MaxNodes - 1)
\* arguments tried for parent_id / id / start_id: every id that can exist and one that cannot
ArgIds == 0 .. MaxNodes
FSel == {"id", "one"}
TileVals == {1, 2}
Dims == 0 .. MaxDim
\* coordinates tried: one below the map, every column/row, and one past the largest map
Coords == -1 .. MaxDim
MapFSel == {"corner"}
\* the (year, day) pairs asked for and the texts the site may answer with
YearDays == {<<"2023", "1">>, <<"2023", "2">>}
Texts == {"t1", "t2"}
\* the chars of from_string inputs: 'a' (1 byte in UTF-8), U+00E9 (2 bytes), '\n'
NL == "nl"
Chars == {"a", "U+00E9", NL}
Strings == UNION {[1 .. n -> Chars] : n \in 0 .. MaxStr}

\* ---------------------------------------------------------------- Option<T>
None == <<>>
Some(x) == <<x>>
unwrap(o) == o[1]

\* ---------------------------------------------------------------- TreeNode
TreeNode_new(val) == [val |-> val, parent |-> None, children |-> <<>>]

set_parent_forgotten(node, parent) == node

set_parent(node, parent) == [node EXCEPT !.parent = Some(parent)]

TreeNode_add_child_prepends(node, child) == [node EXCEPT !.children = <<child>> \o @]

TreeNode_add_child_overwrites(node, child) == [node EXCEPT !.children = <<child>>]

TreeNode_add_child(node, child) == [node EXCEPT !.children = Append(@, child)]

has_children(node) == Len(node.children) > 0

\* ---------------------------------------------------------------- Tree
\* HashMap::insert: adds the key or replaces the entry under it
insert(ns, k, rc) == [i \in (DOMAIN ns) \cup {k} |-> IF i = k THEN rc ELSE ns[i]]

contains_key(ns, id) == id \in DOMAIN ns

create_node_counts_twice(ns, nc, val) ==
    [nodes |-> insert(ns, nc, TreeNode_new(val)), node_count |-> nc + 2, id |-> nc]

create_node_no_increment(ns, nc, val) ==
    [nodes |-> insert(ns, nc, TreeNode_new(val)), node_count |-> nc, id |-> nc]

create_node(ns, nc, val) ==
    [nodes |-> insert(ns, nc, TreeNode_new(val)), node_count |-> nc + 1, id |-> nc]

Tree_new(val) == create_node(<<>>, 0, val)

get_val(id) == nodes[id].val
get_parent_id(id) == nodes[id].parent
get_child_ids(id) == nodes[id].children
get_node_count == node_count

get_mut_val_write(ns, id, w) == [ns EXCEPT ![id].val = w]

\* add_child up to and including set_parent on the new node (lines 71-73)
add_child_created(ns, nc, parent_id, val) ==
    LET t == create_node(ns, nc, val)
    IN [t EXCEPT !.nodes = [t.nodes EXCEPT ![t.id] = set_parent(@, parent_id)]]

\* add_child's last step on the parent (lines 74-75); get_mut_node has unwrapped
add_child_linked(ns, parent_id, child_id) ==
    [ns EXCEPT ![parent_id] = TreeNode_add_child(@, child_id)]

add_child(parent_id, val) ==
    /\ agg_pc = "idle"
    /\ node_count < MaxNodes
    /\ LET t == add_child_created(nodes, node_count, parent_id, val)
       IN IF contains_key(t.nodes, parent_id)
          THEN /\ nodes' = add_child_linked(t.nodes, parent_id, t.id)
               /\ node_count' = t.node_count
               /\ last' = [op |-> "add_child", arg |-> parent_id, pre_count |-> node_count,
                           outcome |-> "ok", ret |-> Some(t.id)]
               /\ returned' = returned \cup {<<t.id, parent_id>>}
               /\ succ' = succ + 1
          ELSE \* get_mut_node(parent_id) panics after create_node and set_parent ran
               /\ nodes' = t.nodes
               /\ node_count' = t.node_count
               /\ last' = [op |-> "add_child", arg |-> parent_id, pre_count |-> node_count,
                           outcome |-> "panic", ret |-> None]
               /\ UNCHANGED <<returned, succ>>
    /\ calls' = calls + 1
    /\ UNCHANGED written
    /\ UNCHANGED aggVars
    /\ UNCHANGED mapVars
    /\ UNCHANGED inputVars
    /\ UNCHANGED fsVars

\* *tree.get_mut_val(id) = w
get_mut_val(id, w) ==
    /\ agg_pc = "idle"
    /\ IF contains_key(nodes, id)
       THEN /\ nodes' = get_mut_val_write(nodes, id, w)
            /\ written' = [written EXCEPT ![id] = Some(w)]
       ELSE \* nodes.get_mut(&id).unwrap() panics before anything is written
            UNCHANGED <<nodes, written>>
    /\ UNCHANGED <<node_count, last, calls, returned, succ>>
    /\ UNCHANGED aggVars
    /\ UNCHANGED mapVars
    /\ UNCHANGED inputVars
    /\ UNCHANGED fsVars

\* ---------------------------------------------------------------- Tree::aggregate
\* the closures f tried: |node| *node and |_| 1
F(sel, v) == IF sel = "id" THEN v ELSE 1

Pops == LET RECURSIVE Tot(_)
            Tot(S) == IF S = {} THEN 0
                      ELSE LET i == CHOOSE j \in S : TRUE IN visits[i] + Tot(S \ {i})
        IN Tot(Ids)

\* let mut stack = vec![start_id]; let mut value = None;   (&self: the tree is borrowed)
aggregate(start, f) ==
    /\ agg_pc = "idle"
    /\ agg_pc' = "loop"
    /\ start_id' = start
    /\ fsel' = f
    /\ stack' = <<start>>
    /\ value' = None
    /\ visits' = [i \in Ids |-> 0]
    /\ UNCHANGED treeVars
    /\ UNCHANGED mapVars
    /\ UNCHANGED inputVars
    /\ UNCHANGED fsVars

aggregate_root(f) == aggregate(0, f)

\* one iteration of `while stack.len() > 0`
aggregate_step ==
    /\ agg_pc = "loop"
    /\ Len(stack) > 0
    /\ Pops < MaxPops
    /\ LET current_node == stack[Len(stack)]
           popped == SubSeq(stack, 1, Len(stack) - 1)
       IN IF ~contains_key(nodes, current_node)
          THEN \* get_node unwraps None
               /\ agg_pc' = "panic"
               /\ stack' = popped
               /\ UNCHANGED <<value, visits>>
          ELSE LET node == nodes[current_node]
               IN /\ stack' = IF has_children(node) THEN popped \o node.children ELSE popped
                  /\ value' = IF value = None
                              THEN Some(F(fsel, node.val))
                              ELSE Some(unwrap(value) + F(fsel, node.val))
                  /\ visits' = [visits EXCEPT ![current_node] = @ + 1]
                  /\ agg_pc' = "loop"
    /\ UNCHANGED <<start_id, fsel>>
    /\ UNCHANGED treeVars
    /\ UNCHANGED mapVars
    /\ UNCHANGED inputVars
    /\ UNCHANGED fsVars

\* the loop condition fails; value.unwrap() is the result
aggregate_exit ==
    /\ agg_pc = "loop"
    /\ Len(stack) = 0
    /\ agg_pc' = "done"
    /\ UNCHANGED <<start_id, fsel, stack, value, visits>>
    /\ UNCHANGED treeVars
    /\ UNCHANGED mapVars
    /\ UNCHANGED inputVars
    /\ UNCHANGED fsVars

\* the caller gets the result (or the panic); the borrow of the tree ends
aggregate_return ==
    /\ agg_pc \in {"done", "panic"}
    /\ agg_pc' = "idle"
    /\ start_id' = 0
    /\ fsel' = "id"
    /\ stack' = <<>>
    /\ value' = None
    /\ visits' = [i \in Ids |-> 0]
    /\ UNCHANGED treeVars
    /\ UNCHANGED mapVars
    /\ UNCHANGED inputVars
    /\ UNCHANGED fsVars

\* ---------------------------------------------------------------- Map2D
Map2D_new(w, h, initial_value) ==
    [tiles |-> [i \in 1 .. (w * h) |-> initial_value], width |-> w, height |-> h]

is_in_bounds(x, y) == x >= 0 /\ y >= 0 /\ x < width /\ y < height

get_index_no_stride(x, y) == x + y

get_index(x, y) == x + y * width

get(x, y) == IF is_in_bounds(x, y) THEN Some(tiles[get_index(x, y) + 1]) ELSE None

\* the closure f tried: the doc example, -7 at the origin and *val elsewhere
MF(sel, tile, x, y) == IF sel = "corner" /\ x = 0 /\ y = 0 THEN -7 ELSE tile

\* the inner loop `for y in y0..=y1` of aggregate_range, from y on, with the running value
RECURSIVE range_y(_, _, _, _, _)
range_y(x, y, y1, f, val) ==
    IF y > y1 THEN val
    ELSE LET tile == get(x, y)
         IN IF tile = None
            THEN range_y(x, y + 1, y1, f, val)
            ELSE range_y(x, y + 1, y1, f,
                         IF val = None
                         THEN Some(MF(f, unwrap(tile), x, y))
                         ELSE Some(unwrap(val) + MF(f, unwrap(tile), x, y)))

\* the outer loop `for x in x0..=x1`, from x on
RECURSIVE range_x(_, _, _, _, _, _)
range_x(x, x1, y0, y1, f, val) ==
    IF x > x1 THEN val
    ELSE range_x(x + 1, x1, y0, y1, f, range_y(x, y0, y1, f, val))

\* the Option that aggregate_range unwraps at its end
aggregate_range_value(x0, x1, y0, y1, f) == range_x(x0, x1, y0, y1, f, None)

MapIdle == [op |-> "idle"]

MapCall(op, x0, x1, y0, y1, f) ==
    LET v == aggregate_range_value(x0, x1, y0, y1, f)
    IN [op |-> op, x0 |-> x0, x1 |-> x1, y0 |-> y0, y1 |-> y1, f |-> f,
        outcome |-> IF v = None THEN "panic" ELSE "ok", ret |-> v]

aggregate_range(x0, x1, y0, y1, f) ==
    /\ mres = MapIdle
    /\ mres' = MapCall("aggregate_range", x0, x1, y0, y1, f)
    /\ UNCHANGED <<tiles, width, height>>
    /\ UNCHANGED treeVars
    /\ UNCHANGED aggVars
    /\ UNCHANGED inputVars
    /\ UNCHANGED fsVars

Map2D_aggregate(f) ==
    /\ mres = MapIdle
    /\ mres' = MapCall("aggregate", 0, width, 0, height, f)
    /\ UNCHANGED <<tiles, width, height>>
    /\ UNCHANGED treeVars
    /\ UNCHANGED aggVars
    /\ UNCHANGED inputVars
    /\ UNCHANGED fsVars

\* the call returns its value or unwinds
map_return ==
    /\ mres # MapIdle
    /\ mres' = MapIdle
    /\ UNCHANGED <<tiles, width, height>>
    /\ UNCHANGED treeVars
    /\ UNCHANGED aggVars
    /\ UNCHANGED inputVars
    /\ UNCHANGED fsVars

set(x, y, val) ==
    /\ mres = MapIdle
    /\ IF ~is_in_bounds(x, y)
       THEN UNCHANGED tiles
       ELSE tiles' = [tiles EXCEPT ![get_index(x, y) + 1] = val]
    /\ mres' = [op |-> "set", x |-> x, y |-> y, val |-> val]
    /\ UNCHANGED <<width, height>>
    /\ UNCHANGED treeVars
    /\ UNCHANGED aggVars
    /\ UNCHANGED inputVars
    /\ UNCHANGED fsVars

\* ---------------------------------------------------------------- input_reader
InputIdle == [op |-> "idle"]

InputCall(yd, cached, outcome, http, ret) ==
    [op |-> "get_input", yd |-> yd, cached |-> cached, outcome |-> outcome,
     http |-> http, ret |-> ret]

\* fetch_input_from_site: send, text, fs::write(...).unwrap()
fetch_input_from_site(yd, send_ok, text) ==
    IF ~send_ok
    THEN \* Err(reason) => panic!, from send() or from text()
         /\ gres' = InputCall(yd, None, "panic", 1, None)
         /\ UNCHANGED input_files
    ELSE IF ~input_dir
    THEN \* fs::write fails without the subfolder and is unwrapped
         /\ gres' = InputCall(yd, None, "panic", 1, None)
         /\ UNCHANGED input_files
    ELSE /\ gres' = InputCall(yd, None, "ok", 1, Some(text))
         /\ input_files' = [input_files EXCEPT ![yd] = Some(text)]

\* get_input(year, day, path_to_cookie); cookie_readable says whether path_to_cookie
\* names a file that read_cookie can read
get_input(yd, cookie_readable, send_ok, text) ==
    /\ gres = InputIdle
    /\ IF ~cookie_readable
       THEN \* read_cookie: expect("Failed to read session cookie.") comes first
            /\ gres' = InputCall(yd, input_files[yd], "panic", 0, None)
            /\ UNCHANGED input_files
       ELSE IF input_files[yd] # None
       THEN /\ gres' = InputCall(yd, input_files[yd], "ok", 0, input_files[yd])
            /\ UNCHANGED input_files
       ELSE fetch_input_from_site(yd, send_ok, text)
    /\ UNCHANGED input_dir
    /\ UNCHANGED treeVars
    /\ UNCHANGED aggVars
    /\ UNCHANGED mapVars
    /\ UNCHANGED fsVars

\* the call returns its text or unwinds
input_return ==
    /\ gres # InputIdle
    /\ gres' = InputIdle
    /\ UNCHANGED <<input_files, input_dir>>
    /\ UNCHANGED treeVars
    /\ UNCHANGED aggVars
    /\ UNCHANGED mapVars
    /\ UNCHANGED fsVars

\* ---------------------------------------------------------------- Map2D::from_string
\* bytes of a char in UTF-8
len_utf8(c) == IF c = "U+00E9" THEN 2 ELSE 1

\* str::len: the length in bytes
RECURSIVE len(_)
len(line) == IF line = <<>> THEN 0 ELSE len_utf8(Head(line)) + len(Tail(line))

\* input.split("\n"): the pieces between newlines, one more than there are newlines
RECURSIVE split(_)
split(input) ==
    IF \A i \in 1 .. Len(input) : input[i] # NL
    THEN <<input>>
    ELSE LET i == CHOOSE k \in 1 .. Len(input) :
                      input[k] = NL /\ \A m \in 1 .. (k - 1) : input[m] # NL
         IN <<SubSeq(input, 1, i - 1)>> \o split(SubSeq(input, i + 1, Len(input)))

\* .take_while(|line| !line.is_empty())
RECURSIVE take_while_not_empty(_)
take_while_not_empty(lines) ==
    IF lines = <<>> \/ Head(lines) = <<>> THEN <<>>
    ELSE <<Head(lines)>> \o take_while_not_empty(Tail(lines))

\* split.join("").chars().collect()
RECURSIVE join(_)
join(lines) == IF lines = <<>> THEN <<>> ELSE Head(lines) \o join(Tail(lines))

from_string_result(input) ==
    LET sp == take_while_not_empty(split(input))
    IN IF Len(sp) = 0
       THEN \* split[0] indexes an empty Vec
            [outcome |-> "panic", at |-> "index"]
       ELSE LET w == len(sp[1])
            IN IF \E idx \in 1 .. Len(sp) : len(sp[idx]) # w
               THEN [outcome |-> "panic", at |-> "length"]
               ELSE [outcome |-> "ok", tiles |-> join(sp), width |-> w, height |-> Len(sp)]

from_string ==
    /\ fs_res = [outcome |-> "idle"]
    /\ LET r == from_string_result(fs_input)
       IN IF r.outcome = "ok"
          THEN /\ tiles' = r.tiles
               /\ width' = r.width
               /\ height' = r.height
               /\ fs_res' = [outcome |-> "ok"]
          ELSE /\ UNCHANGED <<tiles, width, height>>
               /\ fs_res' = r
    /\ UNCHANGED <<mres, fs_input>>
    /\ UNCHANGED treeVars
    /\ UNCHANGED aggVars
    /\ UNCHANGED inputVars

\* ---------------------------------------------------------------- specification
InitAgg ==
    /\ agg_pc = "idle"
    /\ start_id = 0
    /\ fsel = "id"
    /\ stack = <<>>
    /\ value = None
    /\ visits = [i \in Ids |-> 0]

InitTree ==
    /\ \E val \in Vals :
          /\ nodes = Tree_new(val).nodes
          /\ node_count = Tree_new(val).node_count
    /\ last = [op |-> "new", arg |-> 0, pre_count |-> 0, outcome |-> "ok", ret |-> None]
    /\ calls = 0
    /\ returned = {}
    /\ succ = 0
    /\ written = [i \in Ids |-> None]

\* the map the tree specifications carry along, untouched
InitMapFixed ==
    /\ tiles = Map2D_new(1, 1, 1).tiles
    /\ width = 1
    /\ height = 1
    /\ mres = MapIdle

InitMap ==
    /\ \E w \in Dims, h \in Dims, initial_value \in TileVals :
          /\ tiles = Map2D_new(w, h, initial_value).tiles
          /\ width = Map2D_new(w, h, initial_value).width
          /\ height = Map2D_new(w, h, initial_value).height
    /\ mres = MapIdle

\* no input cached yet
InitInputFixed ==
    /\ input_files = [yd \in YearDays |-> None]
    /\ input_dir = TRUE
    /\ gres = InputIdle

InitInput ==
    /\ input_files = [yd \in YearDays |-> None]
    /\ input_dir \in BOOLEAN
    /\ gres = InputIdle

\* no from_string call pending
InitFsFixed ==
    /\ fs_input = <<>>
    /\ fs_res = [outcome |-> "done"]

InitFs ==
    /\ fs_input \in Strings
    /\ fs_res = [outcome |-> "idle"]

Init == InitTree /\ InitAgg /\ InitMapFixed /\ InitInputFixed /\ InitFsFixed

AddChild == \E parent_id \in ArgIds, val \in Vals : add_child(parent_id, val)
GetMutVal == \E id \in ArgIds, w \in Vals : get_mut_val(id, w)

Next == AddChild \/ GetMutVal

Spec == Init /\ [][Next]_vars

Aggregate == \E start \in ArgIds, f \in FSel : aggregate(start, f)
AggregateRoot == \E f \in FSel : aggregate_root(f)

NextAgg ==
    \/ AddChild
    \/ Aggregate
    \/ AggregateRoot
    \/ aggregate_step
    \/ aggregate_exit
    \/ aggregate_return

SpecAgg == Init /\ [][NextAgg]_vars

InitMap2D == InitTree /\ InitAgg /\ InitMap /\ InitInputFixed /\ InitFsFixed

Set == \E x \in Coords, y \in Coords, val \in TileVals : set(x, y, val)
AggregateRange ==
    \E x0 \in Coords, x1 \in Coords, y0 \in Coords, y1 \in Coords, f \in MapFSel :
        aggregate_range(x0, x1, y0, y1, f)
MapAggregate == \E f \in MapFSel : Map2D_aggregate(f)

NextMap ==
    \/ Set
    \/ AggregateRange
    \/ MapAggregate
    \/ map_return

SpecMap == InitMap2D /\ [][NextMap]_vars

InitInputReader == InitTree /\ InitAgg /\ InitMapFixed /\ InitInput /\ InitFsFixed

GetInput ==
    \E yd \in YearDays, cookie_readable \in BOOLEAN, send_ok \in BOOLEAN, text \in Texts :
        get_input(yd, cookie_readable, send_ok, text)

NextInput ==
    \/ GetInput
    \/ input_return

SpecInput == InitInputReader /\ [][NextInput]_vars

InitFromString == InitTree /\ InitAgg /\ InitMapFixed /\ InitInputFixed /\ InitFs

NextFromString == from_string

SpecFromString == InitFromString /\ [][NextFromString]_vars

\* ---------------------------------------------------------------- properties
Occurrences(seq, x) == Cardinality({i \in 1 .. Len(seq) : seq[i] = x})

\* the ids that occur in the children sequence of some node of S
ChildrenOf(S) ==
    {c \in 0 .. MaxNodes : \E p \in S \cap DOMAIN nodes : Occurrences(nodes[p].children, c) > 0}

RECURSIVE Closure(_)
Closure(S) == LET N == S \cup ChildrenOf(S) IN IF N = S THEN S ELSE Closure(N)

Descendants(id) == Closure(ChildrenOf({id}))
Subtree(id) == {id} \cup Descendants(id)

RECURSIVE SumF(_, _)
SumF(f, S) == IF S = {} THEN 0
              ELSE LET i == CHOOSE j \in S : TRUE IN F(f, nodes[i].val) + SumF(f, S \ {i})

\* C1: every node c returned by add_child(p, v) has parent Some(p), p is a key of the
\* arena, and c occurs in p's children sequence exactly once.
C1_ReturnedChildLinked ==
    \A pr \in returned :
        /\ contains_key(nodes, pr[1])
        /\ get_parent_id(pr[1]) = Some(pr[2])
        /\ contains_key(nodes, pr[2])
        /\ Occurrences(get_child_ids(pr[2]), pr[1]) = 1

\* two children under the same non-root parent, both returned
C1_Witness ==
    \E a \in returned, b \in returned :
        /\ a[1] # b[1]
        /\ a[2] = b[2]
        /\ a[2] # 0
        /\ a[2] # a[1]

\* C2: add_child(parent_id, val) with parent_id >= get_node_count() does not return a
\* node id, and no node results from the call.
C2_UnknownParentFails ==
    (last.op = "add_child" /\ last.arg >= last.pre_count)
        => /\ last.outcome = "panic"
           /\ last.ret = None
           /\ node_count = last.pre_count
           /\ DOMAIN nodes = 0 .. (last.pre_count - 1)

\* C3: an add_child call that fails leaves node_count, the arena keys and every node's
\* value, parent and children as they were before the call.
C3_FailedAddChildChangesNothing ==
    [][(calls' # calls /\ last'.outcome = "panic")
           => (nodes' = nodes /\ node_count' = node_count)]_vars

\* C4: the parent/children relation is acyclic: a node's parent id is strictly smaller
\* than its own id, and no node is its own child or its own descendant.
C4_Acyclic ==
    \A id \in DOMAIN nodes :
        /\ (get_parent_id(id) # None => unwrap(get_parent_id(id)) < id)
        /\ Occurrences(get_child_ids(id), id) = 0
        /\ id \notin Descendants(id)

\* C5: aggregate(start_id, f) on an existing start_id adds f(value) of exactly the nodes
\* of {start_id} \cup descendants(start_id), each exactly once, and returns that sum.
C5_AggregateSumsSubtreeOnce ==
    (agg_pc \in {"loop", "done"} /\ contains_key(nodes, start_id))
        => /\ \A id \in Ids : visits[id] <= 1
           /\ \A id \in Ids : visits[id] > 0 => id \in Subtree(start_id)
           /\ agg_pc = "done"
                  => /\ \A id \in Subtree(start_id) : visits[id] = 1
                     /\ value = Some(SumF(fsel, Subtree(start_id)))

\* C6: aggregate on an existing start_id pops at most as many ids as the subtree has
\* nodes before its stack is empty.
C6_AggregatePopsBounded ==
    (agg_pc \in {"loop", "done"} /\ contains_key(nodes, start_id))
        => Pops <= Cardinality(Subtree(start_id))

\* C7: get_node_count() is 1 plus the number of add_child calls that returned, and the
\* k-th call that returned gave identity k.
C7_CountIsOnePlusSuccesses ==
    /\ get_node_count = 1 + succ
    /\ (last.op = "add_child" /\ last.outcome = "ok") => last.ret = Some(succ)

\* C8: exactly one node has parent None and it is id 0: get_parent_id(0) is None and
\* get_parent_id(id) is Some(_) for every other key of the arena.
C8_OnlyRootHasNoParent ==
    /\ contains_key(nodes, 0)
    /\ \A id \in DOMAIN nodes : (get_parent_id(id) = None) <=> (id = 0)

\* a failed call left a node behind and a later call returned
C8_Witness ==
    /\ node_count >= 3
    /\ calls > succ
    /\ last.outcome = "ok"
    /\ last.arg # 0

\* C9: the value last written through get_mut_val(id) is what get_val(id) returns, whatever
\* add_child calls and writes to other ids came after it.
C9_WrittenValueRead ==
    \A id \in Ids :
        written[id] # None => (contains_key(nodes, id) /\ get_val(id) = unwrap(written[id]))

\* two ids written with different values in a tree that has grown to its bound
C9_Witness ==
    /\ node_count = MaxNodes
    /\ \E i \in Ids, j \in Ids :
          /\ written[i] = Some(1)
          /\ written[j] = Some(2)
          /\ nodes[i].children # <<>>

\* the in-bounds coordinates of the rectangle x0..=x1, y0..=y1
InRange(x0, x1, y0, y1) ==
    {c \in (0 .. (width - 1)) \X (0 .. (height - 1)) :
        x0 <= c[1] /\ c[1] <= x1 /\ y0 <= c[2] /\ c[2] <= y1}

RECURSIVE SumMF(_, _)
SumMF(f, S) ==
    IF S = {} THEN 0
    ELSE LET c == CHOOSE d \in S : TRUE
         IN MF(f, tiles[c[1] + c[2] * width + 1], c[1], c[2]) + SumMF(f, S \ {c})

\* C10: aggregate_range(x0, x1, y0, y1, f) returns, for every choice of bounds, the sum
\* of f over the in-bounds coordinates of the rectangle, and aggregate(f) returns the sum
\* of f over all width*height tiles.
C10_AggregateRangeSumsInBounds ==
    /\ mres.op = "aggregate_range"
           => /\ mres.outcome = "ok"
              /\ mres.ret = Some(SumMF(mres.f, InRange(mres.x0, mres.x1, mres.y0, mres.y1)))
    /\ mres.op = "aggregate"
           => /\ mres.outcome = "ok"
              /\ mres.ret = Some(SumMF(mres.f, InRange(0, width - 1, 0, height - 1)))

C12_CachedInputNeedsNoRequest ==
    gres.op = "get_input" =>
        /\ gres.cached # None =>
               /\ gres.outcome = "ok"
               /\ gres.ret = gres.cached
               /\ gres.http = 0
        /\ (gres.cached = None /\ gres.outcome = "ok") =>
               /\ gres.http = 1
               /\ input_files[gres.yd] = gres.ret

\* the lines of fs_input before its first empty line, cut at the newlines
KeptLines ==
    LET nls == {i \in 1 .. Len(fs_input) : fs_input[i] = NL}
        cuts == {0} \cup nls \cup {Len(fs_input) + 1}
        \* the first cut that starts an empty line ends the kept part
        stop == CHOOSE c \in cuts : /\ (c + 1 \in cuts \/ c = Len(fs_input) + 1)
                                    /\ \A b \in cuts : (b < c) => (b + 1 \notin cuts)
        starts == {c \in cuts : c < stop}
        next(c) == CHOOSE e \in cuts : e > c /\ \A b \in cuts : b > c => e <= b
    IN {SubSeq(fs_input, c + 1, next(c) - 1) : c \in starts}

KeptCount ==
    LET nls == {i \in 1 .. Len(fs_input) : fs_input[i] = NL}
        cuts == {0} \cup nls \cup {Len(fs_input) + 1}
        stop == CHOOSE c \in cuts : /\ (c + 1 \in cuts \/ c = Len(fs_input) + 1)
                                    /\ \A b \in cuts : (b < c) => (b + 1 \notin cuts)
    IN Cardinality({c \in cuts : c < stop})

FirstLine ==
    LET end == CHOOSE e \in 1 .. (Len(fs_input) + 1) :
                   /\ (e = Len(fs_input) + 1 \/ fs_input[e] = NL)
                   /\ \A m \in 1 .. (e - 1) : fs_input[m] # NL
    IN SubSeq(fs_input, 1, end - 1)

\* C13: from_string keeps the lines before the first empty line: it panics when a kept
\* line's length differs from the first line's, and otherwise width is the length of the
\* first line, height the number of kept lines and the tile count width*height.
C13_FromStringDimensions ==
    fs_res.outcome \in {"ok", "panic"} =>
        IF \E line \in KeptLines : len(line) # len(FirstLine)
        THEN fs_res.outcome = "panic"
        ELSE /\ fs_res.outcome = "ok"
             /\ width = len(FirstLine)
             /\ height = KeptCount
             /\ Len(tiles) = width * height

\* C14: an add_child(p, v) call that returns leaves every pre-existing node's value and
\* parent alone, leaves the children of every node other than p alone, and appends the
\* new id at the end of p's children.
C14_AddChildOnlyAppends ==
    [][(calls' # calls /\ last'.outcome = "ok") =>
          \A id \in DOMAIN nodes :
              /\ id \in DOMAIN nodes'
              /\ nodes'[id].val = nodes[id].val
              /\ nodes'[id].parent = nodes[id].parent
              /\ id # last'.arg => nodes'[id].children = nodes[id].children
              /\ id = last'.arg =>
                     nodes'[id].children = nodes[id].children \o last'.ret]_vars

\* a call that returned appended to a non-root parent that already had a child
C14_Witness ==
    /\ last.op = "add_child"
    /\ last.outcome = "ok"
    /\ last.arg # 0
    /\ last.arg < last.pre_count
    /\ Len(get_child_ids(last.arg)) >= 2
    /\ get_child_ids(last.arg)[Len(get_child_ids(last.arg))] = unwrap(last.ret)

\* C15: node_count equals the number of entries of the arena and the arena's keys are
\* exactly 0 .. node_count-1, also in the state a failed add_child leaves behind.
C15_CountIsArenaSize ==
    /\ node_count = Cardinality(DOMAIN nodes)
    /\ DOMAIN nodes = 0 .. (node_count - 1)

\* the state right after an add_child call that panicked, with three entries
C15_Witness ==
    /\ last.op = "add_child"
    /\ last.outcome = "panic"
    /\ node_count >= 3
    /\ Cardinality(DOMAIN nodes) >= 3

====
